---- MODULE Spec2Model ----
(***************************************************************************)
(* Model of scrape_pdfs_duck_1.3.py: the per-entry acquisition loop of     *)
(* main() (resume from disk, cascade over DuckDuckGo / IMSLP / Internet    *)
(* Archive / Mutopia, title narrowing, classification, catalog rewrite)    *)
(* and maybe_download_pdf's size-based de-duplication.                     *)
(*                                                                         *)
(* What the network and the file system answer is the environment's        *)
(* choice: the number of URLs a search returns, whether a search raises,   *)
(* each URL's relevance, probed size and download outcome, whether its     *)
(* file name is already taken, and the files found on disk when an entry   *)
(* starts.  A row's title is drawn when the row loop reaches the row: the  *)
(* code reads it there (line 312) and nowhere else.                        *)
(*                                                                         *)
(* Spec is the run over the catalog, with each URL's relevance left open.  *)
(* SpecReport is the same run with the per-source report counters.         *)
(* SpecRelevance is one URL of a list with the strings is_relevant_pdf is  *)
(* called with.                                                            *)
(***************************************************************************)
EXTENDS Integers, Sequences, FiniteSets, TLC

\* ---------------------------------------------------------------- constants
\* MAX_PDFS_PER_PIECE (line 39)
MAX_PDFS_PER_PIECE == 3

\* ------------------------------------------------------------------- bounds
\* rows of the catalog
MaxRows == 2
\* whitespace tokens of a title (0: an empty title field)
MaxTokens == 2
\* URLs one search returns (RESULTS_PER_QUERY is 30 in the source)
MaxResults == 2
\* length of the templates list (33 entries in the source)
NumTemplates == 2
\* SpecReport: tokens of a title, URLs one search returns at most, and the
\* cap on each report counter
ReportTokens == 1
ReportResults == 2
MaxCount == 2
\* SpecRelevance: words of a title, pieces of a URL
MaxTitleWords == 3
MaxUrlPieces == 2

\* byte sizes: as many as the quota, so that a fresh entry can reach it
Sizes == 1..MAX_PDFS_PER_PIECE
\* distinct file names an entry's pattern can match: one more than the
\* quota, so that the disk can hold more matching files than the quota
NumNames == MAX_PDFS_PER_PIECE + 1

\* get_remote_pdf_size's None (lines 142, 144)
NoSize == 0

\* rows = list(reader) (line 306): the rows, named by their position
rows == [i \in 1..MaxRows |-> i]

VARIABLES
    catalog,          \* the contents of INPUT_CSV (row ids, in file order)
    idx,              \* position of `for row in rows` (line 311)
    pc,               \* control point of main()
    t,                \* position of `for tmpl in templates` (line 335)
    src,              \* the search whose URL list is being iterated
    pending,          \* URLs left in the list being iterated
    saved,            \* saved (line 323)
    seen_sizes,       \* seen_sizes (line 317)
    nfiles,           \* number of files matching the entry's pattern
    ntok,             \* whitespace tokens of title (line 312)
    words,            \* len(words) / tokens of curr_title (lines 411-417)
    complete_rows,    \* line 308
    incomplete_rows,  \* line 309
    exc,              \* the exception caught at line 422, "none" if none
    \* history of the entry being processed
    net,              \* a network call was issued for the entry
    last,             \* what became of the last URL of the list
    reqs,             \* the requests issued for that URL
    slept,            \* time.sleep(DOWNLOAD_DELAY) ran for that URL (line 353)
    variants,         \* token counts of the title variants given a cascade
    counters,         \* counters (lines 246-252)
    \* history of the run
    allFull,          \* every row so far was found with its quota on disk
    \* the scope of the model
    report,           \* the report counters are followed
    cand              \* SpecRelevance: the URL of the list, the title variant
                      \* and the composer, as strings

vars == <<catalog, idx, pc, t, src, pending, saved, seen_sizes, nfiles, ntok,
          words, complete_rows, incomplete_rows, exc, net, last, reqs, slept,
          variants, counters, allFull, report, cand>>

\* the keys of counters (lines 247-252)
Sources == {"DDG", "IMSLP", "Archive", "Mutopia"}

\* lines 351, 369, 387, 405 all incrementing counters['DDG']
Count_Ddg(c, tag, ret) == IF ret THEN [c EXCEPT !["DDG"] = @ + 1] ELSE c

\* lines 349-351 (367-369, 385-387, 403-405): counters[tag] += 1 after an
\* accepted download
Count(c, tag, ret) == IF ret THEN [c EXCEPT ![tag] = @ + 1] ELSE c

Min(a, b) == IF a <= b THEN a ELSE b

\* ------------------------------------------------------------ guards
\* line 324 with > for >=
ResumeShortcut_Strict(n) == n > MAX_PDFS_PER_PIECE

\* lines 324-327 left out: no resume check
ResumeShortcut_Off(n) == FALSE

\* line 324
ResumeShortcut(n) == n >= MAX_PDFS_PER_PIECE

\* line 336 with > for >=
QuotaMetTmpl_Strict(n) == n > MAX_PDFS_PER_PIECE

\* line 336
QuotaMetTmpl(n) == n >= MAX_PDFS_PER_PIECE

\* lines 344, 362, 380, 398 with > for >=
QuotaMetUrl_Strict(n) == n > MAX_PDFS_PER_PIECE

\* lines 344, 362, 380, 398
QuotaMetUrl(n) == n >= MAX_PDFS_PER_PIECE

\* lines 356, 374, 392
NeedImslp(n) == n < MAX_PDFS_PER_PIECE
NeedArchive(n) == n < MAX_PDFS_PER_PIECE
\* line 392 without its test
NeedMutopia_Always(n) == TRUE
NeedMutopia(n) == n < MAX_PDFS_PER_PIECE

\* line 415 stopping one token early
NarrowCond_Early(n, w) == n < MAX_PDFS_PER_PIECE /\ w > 2

\* line 414 with len(words) > 0 for len(words) > 1
NarrowCond_ToEmpty(n, w) == n < MAX_PDFS_PER_PIECE /\ w > 0

\* line 415
NarrowCond(n, w) == n < MAX_PDFS_PER_PIECE /\ w > 1

\* line 426 with <= for <
IsIncomplete_Le(n) == n <= MAX_PDFS_PER_PIECE

\* line 426
IsIncomplete(n) == n < MAX_PDFS_PER_PIECE

\* ------------------------------------------------------------ download
\* outcomes of requests.get and the write of lines 153-158:
\*   "http"  : exception in the request, status # 200 or not a pdf
\*   "open"  : open(dest_path, 'wb') raises, nothing is written
\*   "write" : the file is created and a later write raises
\*   "ok"    : the file is written in full
GetOutcomes == {"http", "open", "write", "ok"}

\* maybe_download_pdf without the handler of lines 168-169 around the
\* write: a failure of open or write propagates to the caller
maybe_download_pdf_Raises(probe, get, actual, clash, seen, nf) ==
    LET written == IF clash THEN nf ELSE nf + 1 IN
    IF probe # NoSize /\ probe \in seen
    THEN [ret |-> FALSE, seen |-> seen, files |-> nf, raised |-> FALSE,
          outcome |-> "dup_probe",
          reqs |-> {"head"}]
    ELSE CASE get = "http" ->
                [ret |-> FALSE, seen |-> seen, files |-> nf,
                 raised |-> FALSE, outcome |-> "failed",
                 reqs |-> {"head", "get"}]
           [] get = "open" ->
                [ret |-> FALSE, seen |-> seen, files |-> nf,
                 raised |-> TRUE, outcome |-> "storage",
                 reqs |-> {"head", "get"}]
           [] get = "write" ->
                [ret |-> FALSE, seen |-> seen, files |-> written,
                 raised |-> TRUE, outcome |-> "storage",
                 reqs |-> {"head", "get"}]
           [] get = "ok" ->
                LET size == IF probe = NoSize THEN actual ELSE probe
                IN  IF size \in seen
                    THEN [ret |-> FALSE, seen |-> seen,
                          files |-> written - 1, raised |-> FALSE,
                          outcome |-> "dup_after",
                          reqs |-> {"head", "get"}]
                    ELSE [ret |-> TRUE, seen |-> seen \cup {size},
                          files |-> written, raised |-> FALSE,
                          outcome |-> "saved",
                          reqs |-> {"head", "get"}]

\* lines 148-150 left out: a known probed size is not rejected before
\* the GET
maybe_download_pdf_NoEarlyReject(probe, get, actual, clash, seen, nf) ==
    LET written == IF clash THEN nf ELSE nf + 1 IN
    CASE get = "http" ->
           [ret |-> FALSE, seen |-> seen, files |-> nf,
            raised |-> FALSE, outcome |-> "failed",
            reqs |-> {"head", "get"}]
      [] get = "open" ->
           [ret |-> FALSE, seen |-> seen, files |-> nf,
            raised |-> FALSE, outcome |-> "storage",
            reqs |-> {"head", "get"}]
      [] get = "write" ->
           [ret |-> FALSE, seen |-> seen, files |-> written,
            raised |-> FALSE, outcome |-> "storage",
            reqs |-> {"head", "get"}]
      [] get = "ok" ->
           LET size == IF probe = NoSize THEN actual ELSE probe IN
           IF size \in seen
           THEN [ret |-> FALSE, seen |-> seen, files |-> written - 1,
                 raised |-> FALSE, outcome |-> "dup_after",
                 reqs |-> {"head", "get"}]
           ELSE [ret |-> TRUE, seen |-> seen \cup {size}, files |-> written,
                 raised |-> FALSE, outcome |-> "saved",
                 reqs |-> {"head", "get"}]

\* maybe_download_pdf(url, dest_path, seen_sizes), lines 146-172.
\* probe: get_remote_pdf_size(url); get: outcome of the download; actual:
\* byte length of the file when it was written in full; clash: dest_path names a file that is already on disk;
\* nf: the number of files on disk.  Only the number of files and whether
\* dest_path is one of them matter: their sizes are read at entry start
\* only (line 320), and the code never looks at a name.  Writing over an
\* existing file keeps the number, writing a new one adds one, and
\* os.remove(dest_path) takes the written file away again.
maybe_download_pdf(probe, get, actual, clash, seen, nf) ==
    LET written == IF clash THEN nf ELSE nf + 1 IN
    IF probe # NoSize /\ probe \in seen
    THEN [ret |-> FALSE, seen |-> seen, files |-> nf, raised |-> FALSE,
          outcome |-> "dup_probe",
          reqs |-> {"head"}]
    ELSE CASE get = "http" ->
                [ret |-> FALSE, seen |-> seen, files |-> nf,
                 raised |-> FALSE, outcome |-> "failed",
                 reqs |-> {"head", "get"}]
           [] get = "open" ->
                [ret |-> FALSE, seen |-> seen, files |-> nf,
                 raised |-> FALSE, outcome |-> "storage",
                 reqs |-> {"head", "get"}]
           [] get = "write" ->
                [ret |-> FALSE, seen |-> seen, files |-> written,
                 raised |-> FALSE, outcome |-> "storage",
                 reqs |-> {"head", "get"}]
           [] get = "ok" ->
                LET size == IF probe = NoSize THEN actual ELSE probe
                IN  IF size \in seen
                    THEN [ret |-> FALSE, seen |-> seen,
                          files |-> written - 1, raised |-> FALSE,
                          outcome |-> "dup_after",
                          reqs |-> {"head", "get"}]
                    ELSE [ret |-> TRUE, seen |-> seen \cup {size},
                          files |-> written, raised |-> FALSE,
                          outcome |-> "saved",
                          reqs |-> {"head", "get"}]

\* line 353 inside the if of line 349: the delay follows a saved file only
DelayAfter_Saved(ret) == ret

\* line 353: time.sleep(DOWNLOAD_DELAY) is a statement of the URL loop's
\* body, after the if of line 349: it runs whatever maybe_download_pdf
\* returned
DelayAfter(ret) == TRUE

\* ------------------------------------------------------------ strings
\* A string is the sequence of its characters.
\* the characters of the strings below that \w does not match
NonWord == {" ", "-", "%"}

\* str.lower()
lower(s) ==
    [i \in 1..Len(s) |-> CASE s[i] = "A" -> "a"
                           [] s[i] = "B" -> "b"
                           [] OTHER -> s[i]]

\* urllib.parse.unquote: %xx becomes the character of code xx (of the
\* escapes only %62 occurs in the URLs below)
RECURSIVE unquote(_)
unquote(s) ==
    IF s = <<>> THEN <<>>
    ELSE IF s[1] = "%" /\ Len(s) >= 3 /\ s[2] = "6" /\ s[3] = "2"
         THEN <<"b">> \o unquote(SubSeq(s, 4, Len(s)))
         ELSE <<s[1]>> \o unquote(Tail(s))

\* `sub in text`
Contains(text, sub) ==
    \E k \in 0..(Len(text) - Len(sub)) :
        SubSeq(text, k + 1, k + Len(sub)) = sub

\* the maximal runs of s free of the characters of seps, left to right;
\* cur is the run being read
RECURSIVE Runs(_, _, _)
Runs(s, cur, seps) ==
    LET done == IF cur = <<>> THEN <<>> ELSE <<cur>> IN
    IF s = <<>> THEN done
    ELSE IF s[1] \notin seps THEN Runs(Tail(s), Append(cur, s[1]), seps)
         ELSE done \o Runs(Tail(s), <<>>, seps)

\* re.findall(r'\w+', s)
findall_words(s) == Runs(s, <<>>, NonWord)

\* str.split()
split(s) == Runs(s, <<>>, {" "})

\* str.replace(" ", "")
remove_spaces(s) == SelectSeq(s, LAMBDA c : c # " ")

\* the keywords of line 82
Keywords ==
    { <<"p", "i", "a", "n", "o">>,
      <<"a", "r", "r", "a", "n", "g", "e", "d">>,
      <<"c", "o", "m", "p", "o", "s", "e", "r">>,
      <<"s", "c", "o", "r", "e">>,
      <<"s", "h", "e", "e", "t">>,
      <<"m", "u", "s", "i", "c">> }

\* line 73 with > for >=
is_relevant_pdf_Majority(url, title, composer) ==
    LET text == lower(unquote(url))
        title_words == findall_words(lower(title))
        match_count == Cardinality({i \in 1..Len(title_words) :
                                       Contains(text, title_words[i])})
        comp == remove_spaces(lower(composer))
    IN  \/ 2 * match_count > Len(title_words)
        \/ Contains(text, comp)
        \/ \E kw \in Keywords : Contains(text, kw)

\* lines 61-86.  match_count >= len(words) / 2 is a comparison with a
\* float: it is 2 * match_count >= len(words)
is_relevant_pdf(url, title, composer) ==
    LET text == lower(unquote(url))
        title_words == findall_words(lower(title))
        match_count == Cardinality({i \in 1..Len(title_words) :
                                       Contains(text, title_words[i])})
        comp == remove_spaces(lower(composer))
    IN  \/ 2 * match_count >= Len(title_words)
        \/ Contains(text, comp)
        \/ \E kw \in Keywords : Contains(text, kw)

\* The strings SpecRelevance draws.  A title (row[2].strip(), line 312) is
\* up to MaxTitleWords words joined by a space or a hyphen; a URL is up to
\* MaxUrlPieces pieces.
TitleWords == {<<"a">>, <<"B">>}
TitleSeps == {<<" ">>, <<"-">>}

RECURSIVE TitlesOf(_)
TitlesOf(n) ==
    IF n = 0 THEN {<<>>}
    ELSE IF n = 1 THEN TitleWords
    ELSE {p \o sp \o w : p \in TitlesOf(n - 1), sp \in TitleSeps,
                         w \in TitleWords}

Titles == UNION {TitlesOf(n) : n \in 0..MaxTitleWords}

UrlPieces == {<<"a">>, <<"b">>, <<"A">>, <<"%", "6", "2">>,
              <<"s", "c", "o", "r", "e">>}

RECURSIVE UrlsOf(_)
UrlsOf(n) ==
    IF n = 0 THEN {<<>>}
    ELSE {p \o q : p \in UrlsOf(n - 1), q \in UrlPieces}

Urls == UNION {UrlsOf(n) : n \in 0..MaxUrlPieces}

Composers == {<<>>, <<"d">>, <<"B", " ", "a">>}

\* no strings: Spec and SpecReport leave the relevance of a URL open
NoCand == [url |-> <<>>, title |-> <<>>, composer |-> <<>>]

\* ------------------------------------------------------------ searches
\* ddg_search_pdf_urls (lines 121-136) with ddg_html_search (lines 88-109):
\* an exception of the DDGS path is swallowed (line 134), a failed HTML
\* request returns [] (lines 97-99).  n URLs when the search answers.
ddg_search_pdf_urls(fails, n) ==
    IF fails THEN [raised |-> FALSE, n |-> 0] ELSE [raised |-> FALSE, n |-> n]

\* search_imslp (lines 180-206): no handler around requests.get /
\* raise_for_status / the parse, a failure propagates to the caller
search_imslp(fails, n) ==
    IF fails THEN [raised |-> TRUE, n |-> 0] ELSE [raised |-> FALSE, n |-> n]

\* search_archive_org (lines 208-224): likewise
search_archive_org(fails, n) ==
    IF fails THEN [raised |-> TRUE, n |-> 0] ELSE [raised |-> FALSE, n |-> n]

\* search_mutopia (lines 226-238): likewise
search_mutopia(fails, n) ==
    IF fails THEN [raised |-> TRUE, n |-> 0] ELSE [raised |-> FALSE, n |-> n]

\* no handler at line 422: the exception ends the run
ExceptTarget_EndsRun == "done"

\* where an exception raised inside the try of line 409 continues:
\* the handler of lines 422-423 falls through to line 425
ExceptTarget == "classify"

\* ------------------------------------------------------------ Init
\* the state when main() reaches the row loop
Start ==
    /\ catalog = rows
    /\ idx = 1
    /\ pc = "row"
    /\ t = 1
    /\ src = "none"
    /\ pending = 0
    /\ saved = 0
    /\ seen_sizes = {}
    /\ nfiles = 0
    /\ ntok = 0
    /\ words = 0
    /\ complete_rows = <<>>
    /\ incomplete_rows = <<>>
    /\ exc = "none"
    /\ net = FALSE
    /\ last = "none"
    /\ reqs = {}
    /\ slept = FALSE
    /\ allFull = TRUE
    /\ variants = <<>>
    /\ counters = [s \in Sources |-> 0]

\* The report counters are written and printed, never read by the control
\* flow.  Spec leaves them at their initial value; SpecReport follows them.
Init == Start /\ report = FALSE /\ cand = NoCand

InitReport == Start /\ report = TRUE /\ cand = NoCand

\* ------------------------------------------------------------ actions
\* try_search is left, by a return (to line 414) or by an exception (to
\* line 422): its loop positions are gone
Leave(target) ==
    /\ pc' = target
    /\ t' = 1
    /\ src' = "none"
    /\ pending' = 0
    /\ last' = "none"
    /\ reqs' = {}
    /\ slept' = FALSE

\* lines 311-329: the next row.  Its title has n tokens; k files match its
\* pattern (kept under the first k names), sizeOf gives their sizes and
\* getsize fails on those of unread (lines 319-322).
StartEntry ==
    /\ pc = "row"
    /\ idx <= Len(rows)
    /\ \E n \in 0..MaxTokens, k \in 0..NumNames :
       \E sizeOf \in [1..k -> Sizes], unread \in SUBSET (1..k) :
         /\ ntok' = n
         /\ words' = n
         /\ nfiles' = k
         /\ seen_sizes' = {sizeOf[i] : i \in (1..k) \ unread}
         /\ saved' = k
         /\ allFull' = (allFull /\ k >= MAX_PDFS_PER_PIECE)
         /\ IF ResumeShortcut(k)
            THEN /\ complete_rows' = Append(complete_rows, rows[idx])
                 /\ idx' = idx + 1
                 /\ pc' = "row"
                 /\ variants' = <<>>
            ELSE /\ pc' = "tmpl"
                 /\ variants' = <<n>>
                 /\ UNCHANGED <<complete_rows, idx>>
    /\ t' = 1
    /\ src' = "none"
    /\ pending' = 0
    /\ exc' = "none"
    /\ net' = FALSE
    /\ last' = "none"
    /\ reqs' = {}
    /\ slept' = FALSE
    /\ UNCHANGED <<cand, report, counters, catalog, incomplete_rows>>

\* line 336: return from try_search at the head of the template loop
TmplReturn ==
    /\ pc = "tmpl"
    /\ t <= NumTemplates
    /\ QuotaMetTmpl(saved)
    /\ Leave("ret")
    /\ UNCHANGED <<cand, report, counters, allFull, catalog, idx, saved,
                   seen_sizes, nfiles, ntok, words, complete_rows,
                   incomplete_rows, exc, net, variants>>

\* a search was called: its URL list is iterated, or its exception unwinds
\* to the handler of line 422
Searched(tag, r) ==
    /\ net' = TRUE
    /\ IF r.raised
       THEN /\ Leave(ExceptTarget)
            /\ exc' = "source"
       ELSE /\ pc' = "urls"
            /\ src' = tag
            /\ pending' = r.n
            /\ last' = "none"
            /\ reqs' = {}
            /\ slept' = FALSE
            /\ UNCHANGED <<t, exc>>

\* lines 338-340: one DuckDuckGo query
DdgFetch ==
    /\ pc = "tmpl"
    /\ t <= NumTemplates
    /\ ~QuotaMetTmpl(saved)
    /\ \E fails \in BOOLEAN, n \in 0..MaxResults :
         Searched("DDG", ddg_search_pdf_urls(fails, n))
    /\ UNCHANGED <<cand, report, counters, allFull, catalog, idx, saved,
                   seen_sizes, nfiles, ntok, words, complete_rows,
                   incomplete_rows, variants>>

\* line 335: the template list is exhausted
TmplDone ==
    /\ pc = "tmpl"
    /\ t > NumTemplates
    /\ pc' = "imslp"
    /\ UNCHANGED <<cand, report, counters, allFull, catalog, idx, t, src,
                   pending, saved, seen_sizes, nfiles, ntok, words,
                   complete_rows, incomplete_rows, exc, net, last, reqs, slept,
                   variants>>

\* lines 356-358, 374-376, 392-394: one secondary search, or its skip
Secondary(at, need, tag, r, skipTo) ==
    /\ pc = at
    /\ IF need
       THEN Searched(tag, r)
       ELSE /\ IF skipTo = "ret"
               THEN Leave("ret")
               ELSE pc' = skipTo /\ UNCHANGED <<t, src, pending, last, reqs,
                                                slept>>
            /\ UNCHANGED <<net, exc>>
    /\ UNCHANGED <<cand, report, counters, allFull, catalog, idx, saved,
                   seen_sizes, nfiles, ntok, words, complete_rows,
                   incomplete_rows, variants>>

ImslpStep ==
    \E fails \in BOOLEAN, n \in 0..MaxResults :
        Secondary("imslp", NeedImslp(saved), "IMSLP",
                  search_imslp(fails, n), "archive")

ArchiveStep ==
    \E fails \in BOOLEAN, n \in 0..MaxResults :
        Secondary("archive", NeedArchive(saved), "Archive",
                  search_archive_org(fails, n), "mutopia")

MutopiaStep ==
    \E fails \in BOOLEAN, n \in 0..MaxResults :
        Secondary("mutopia", NeedMutopia(saved), "Mutopia",
                  search_mutopia(fails, n), "ret")

\* One URL of the list, lines 341-353 (and 359-371, 377-389, 395-407).
\* lines 341-343: is_relevant_pdf(url, curr_title, composer) is false
UrlIrrelevant ==
    /\ pc = "urls"
    /\ pending > 0
    /\ pending' = pending - 1
    /\ last' = "irrelevant"
    /\ reqs' = {}
    /\ slept' = FALSE
    /\ UNCHANGED <<cand, report, counters, allFull, catalog, idx, pc, t, src,
                   saved, seen_sizes, nfiles, ntok, words, complete_rows,
                   incomplete_rows, exc, net, variants>>

\* lines 344-345: a relevant URL with the quota met returns from try_search
UrlReturn ==
    /\ pc = "urls"
    /\ pending > 0
    /\ QuotaMetUrl(saved)
    /\ Leave("ret")
    /\ UNCHANGED <<cand, report, counters, allFull, catalog, idx, saved,
                   seen_sizes, nfiles, ntok, words, complete_rows,
                   incomplete_rows, exc, net, variants>>

\* line 346: urlparse(url) raises ValueError on a malformed URL
UrlRaise ==
    /\ pc = "urls"
    /\ pending > 0
    /\ ~QuotaMetUrl(saved)
    /\ Leave(ExceptTarget)
    /\ exc' = "url"
    /\ UNCHANGED <<cand, report, counters, allFull, catalog, idx, saved,
                   seen_sizes, nfiles, ntok, words, complete_rows,
                   incomplete_rows, net, variants>>

\* lines 346-353: the download attempt.  A name that is not on disk yet
\* exists only while fewer than NumNames files are there.
UrlDownload ==
    /\ pc = "urls"
    /\ pending > 0
    /\ ~QuotaMetUrl(saved)
    /\ \E clash \in BOOLEAN, probe \in Sizes \cup {NoSize},
          get \in GetOutcomes, actual \in Sizes \cup {NoSize} :
         LET r == maybe_download_pdf(probe, get, actual, clash,
                                     seen_sizes, nfiles) IN
         /\ (get = "ok") <=> (actual # NoSize)
         /\ clash => nfiles > 0
         /\ ~clash => nfiles < NumNames
         /\ seen_sizes' = r.seen
         /\ nfiles' = r.files
         /\ counters' = IF report
                        THEN Count(counters, src, r.ret /\ ~r.raised)
                        ELSE counters
         /\ IF r.raised
            THEN /\ Leave(ExceptTarget)
                 /\ exc' = "storage"
                 /\ UNCHANGED saved
            ELSE /\ saved' = IF r.ret THEN saved + 1 ELSE saved
                 /\ pending' = pending - 1
                 /\ last' = r.outcome
                 /\ reqs' = r.reqs
                 /\ slept' = DelayAfter(r.ret)
                 /\ UNCHANGED <<pc, t, src, exc>>
    /\ net' = TRUE
    /\ UNCHANGED <<cand, report, allFull, catalog, idx, ntok, words,
                   complete_rows, incomplete_rows, variants>>

\* the end of a URL list: the next template, the next source, or the
\* return of try_search after Mutopia
UrlsDone ==
    /\ pc = "urls"
    /\ pending = 0
    /\ CASE src = "DDG" ->
              /\ pc' = "tmpl"
              /\ t' = t + 1
              /\ last' = "none"
              /\ reqs' = {}
              /\ slept' = FALSE
              /\ UNCHANGED <<src, pending>>
         [] src = "IMSLP" ->
              /\ pc' = "archive"
              /\ last' = "none"
              /\ reqs' = {}
              /\ slept' = FALSE
              /\ UNCHANGED <<t, src, pending>>
         [] src = "Archive" ->
              /\ pc' = "mutopia"
              /\ last' = "none"
              /\ reqs' = {}
              /\ slept' = FALSE
              /\ UNCHANGED <<t, src, pending>>
         [] src = "Mutopia" -> Leave("ret")
    /\ UNCHANGED <<cand, report, counters, allFull, catalog, idx, saved,
                   seen_sizes, nfiles, ntok, words, complete_rows,
                   incomplete_rows, exc, net, variants>>

\* lines 414-419 with seen_sizes = set() moved into the while loop
Narrow_Resets ==
    /\ pc = "ret"
    /\ IF NarrowCond(saved, words)
       THEN /\ words' = words - 1
            /\ variants' = Append(variants, words - 1)
            /\ pc' = "tmpl"
            /\ seen_sizes' = {}
       ELSE /\ pc' = "classify"
            /\ UNCHANGED <<words, variants, seen_sizes>>
    /\ UNCHANGED <<cand, report, counters, allFull, catalog, idx, t, src,
                   pending, saved, nfiles, ntok, complete_rows,
                   incomplete_rows, exc, net, last, reqs, slept>>

\* lines 414-419: after try_search returned, narrow the title or stop
Narrow ==
    /\ pc = "ret"
    /\ IF NarrowCond(saved, words)
       THEN /\ words' = words - 1
            /\ variants' = Append(variants, words - 1)
            /\ pc' = "tmpl"
       ELSE /\ pc' = "classify"
            /\ UNCHANGED <<words, variants>>
    /\ UNCHANGED <<cand, report, counters, allFull, catalog, idx, t, src,
                   pending, saved, seen_sizes, nfiles, ntok, complete_rows,
                   incomplete_rows, exc, net, last, reqs, slept>>

\* lines 425-431: categorize the row.  saved and exc stay as they are until
\* the next row overwrites them; the other locals of the entry are dead
\* and are cleared, and so is the entry's history
Classify ==
    /\ pc = "classify"
    /\ IF IsIncomplete(saved)
       THEN /\ incomplete_rows' = Append(incomplete_rows, rows[idx])
            /\ UNCHANGED complete_rows
       ELSE /\ complete_rows' = Append(complete_rows, rows[idx])
            /\ UNCHANGED incomplete_rows
    /\ idx' = idx + 1
    /\ pc' = "row"
    /\ seen_sizes' = {}
    /\ nfiles' = 0
    /\ words' = 0
    /\ ntok' = 0
    /\ net' = FALSE
    /\ variants' = <<>>
    /\ UNCHANGED <<cand, report, counters, allFull, catalog, t, src, pending,
                   last, reqs, slept, saved, exc>>

\* line 436 with the two lists swapped
RewriteOrder_Swapped(c, i) == i \o c

\* line 436: the order in which the rows are written back
RewriteOrder(c, i) == c \o i

\* lines 433-437
WriteCatalog ==
    /\ pc = "row"
    /\ idx > Len(rows)
    /\ catalog' = RewriteOrder(complete_rows, incomplete_rows)
    /\ pc' = "done"
    /\ UNCHANGED <<cand, report, counters, allFull, idx, t, src, pending,
                   saved, seen_sizes, nfiles, ntok, words, complete_rows,
                   incomplete_rows, exc, net, last, reqs, slept, variants>>

Next ==
    \/ StartEntry
    \/ TmplReturn
    \/ DdgFetch
    \/ TmplDone
    \/ ImslpStep
    \/ ArchiveStep
    \/ MutopiaStep
    \/ UrlIrrelevant
    \/ UrlReturn
    \/ UrlRaise
    \/ UrlDownload
    \/ UrlsDone
    \/ Narrow
    \/ Classify
    \/ WriteCatalog

Spec == Init /\ [][Next]_vars

\* control points inside the processing of one entry
InEntry == pc \in {"tmpl", "urls", "imslp", "archive", "mutopia", "ret",
                   "classify"}

\* SpecReport: the run with its report counters, for titles of
\* ReportTokens tokens and URL lists of at most ReportResults URLs, as long
\* as no counter exceeds MaxCount
EnvReport ==
    /\ ntok' <= ReportTokens
    /\ InEntry' => ntok' = ReportTokens
    /\ pending' <= ReportResults
    /\ \A s \in Sources : counters'[s] <= MaxCount

NextReport ==
    \/ StartEntry /\ EnvReport
    \/ TmplReturn /\ EnvReport
    \/ DdgFetch /\ EnvReport
    \/ TmplDone /\ EnvReport
    \/ ImslpStep /\ EnvReport
    \/ ArchiveStep /\ EnvReport
    \/ MutopiaStep /\ EnvReport
    \/ UrlIrrelevant /\ EnvReport
    \/ UrlReturn /\ EnvReport
    \/ UrlRaise /\ EnvReport
    \/ UrlDownload /\ EnvReport
    \/ UrlsDone /\ EnvReport
    \/ Narrow /\ EnvReport
    \/ Classify /\ EnvReport
    \/ WriteCatalog /\ EnvReport

SpecReport == InitReport /\ [][NextReport]_vars


\* SpecRelevance: one URL of the first DuckDuckGo list of a fresh entry,
\* with the strings is_relevant_pdf is called with (line 341)
InitRelevance ==
    /\ cand \in [url : Urls, title : Titles, composer : Composers]
    /\ catalog = rows
    /\ idx = 1
    /\ pc = "urls"
    /\ t = 1
    /\ src = "DDG"
    /\ pending = 1
    /\ saved = 0
    /\ seen_sizes = {}
    /\ nfiles = 0
    /\ ntok = Len(split(cand.title))
    /\ words = Len(split(cand.title))
    /\ complete_rows = <<>>
    /\ incomplete_rows = <<>>
    /\ exc = "none"
    /\ net = TRUE
    /\ last = "none"
    /\ reqs = {}
    /\ slept = FALSE
    /\ allFull = FALSE
    /\ variants = <<Len(split(cand.title))>>
    /\ counters = [s \in Sources |-> 0]
    /\ report = FALSE

\* lines 341-343: the URL is skipped
RelSkip ==
    /\ ~is_relevant_pdf(cand.url, cand.title, cand.composer)
    /\ UrlIrrelevant

\* lines 341-353: the URL passes the filter
RelTry ==
    /\ is_relevant_pdf(cand.url, cand.title, cand.composer)
    /\ UrlDownload

NextRelevance ==
    \/ RelSkip
    \/ RelTry

SpecRelevance == InitRelevance /\ [][NextRelevance]_vars

\* ================================================================ claims
Range(q) == {q[i] : i \in 1..Len(q)}

\* the row whose processing ended last
Prev == rows[idx - 1]

\* ---------------------------------------------------------------- C1
\* C1 as written: 0 <= achieved <= quota in every reachable state,
\* also at entry start when more than quota matching files exist.
C1_AchievedWithinQuota ==
    0 <= saved /\ saved <= MAX_PDFS_PER_PIECE

\* C1, amended: achieved is never negative and never exceeds the quota
\* during the cascade, the narrowing and the classification of an entry;
\* it exceeds the quota only for an entry that was found with more than
\* quota matching files, which is skipped with achieved equal to the
\* number of those files.
C1_AchievedBound ==
    /\ 0 <= saved
    /\ InEntry => saved <= MAX_PDFS_PER_PIECE
    /\ saved > MAX_PDFS_PER_PIECE =>
          (pc \in {"row", "done"} /\ saved = nfiles)

\* the quota is reached by a download while URLs of the list are left
C1_Witness ==
    pc = "urls" /\ saved = MAX_PDFS_PER_PIECE /\ pending > 0 /\ last = "saved"

\* ---------------------------------------------------------------- C2
\* C2: a failure inside any connector surfaces as an empty candidate
\* sequence and never aborts the entry: no exception of a search reaches
\* the entry's handler.
C2_SourceFailureNeverAborts ==
    exc # "source"

\* ---------------------------------------------------------------- C3
\* C3: within one entry the retained documents, those seeded from disk
\* included, have pairwise distinct sizes: the number of retained
\* documents equals the size of the fingerprint set.
C3_RetainedSizesDistinct ==
    InEntry => saved = Cardinality(seen_sizes)

\* ---------------------------------------------------------------- C4
\* a search of the cascade is called from control point `at`
SearchCalled(at) ==
    /\ pc = at
    /\ exc = "none"
    /\ pc' = "urls" \/ exc' = "source"

\* C4: in one cascade the searches run in the order DuckDuckGo (the
\* templates in list order), IMSLP, Internet Archive, Mutopia; each is
\* called only with achieved < quota, a secondary source only after every
\* earlier step, and the title is narrowed only with achieved < quota.
C4_CascadePrecedence ==
    [][ /\ SearchCalled("tmpl") =>
             /\ saved < MAX_PDFS_PER_PIECE
             /\ t \in 1..NumTemplates
             /\ src = (IF t = 1 THEN "none" ELSE "DDG")
             /\ pc' = "urls" => (src' = "DDG" /\ t' = t)
        /\ SearchCalled("imslp") =>
             /\ saved < MAX_PDFS_PER_PIECE
             /\ t = NumTemplates + 1
             /\ src = "DDG"
             /\ pc' = "urls" => src' = "IMSLP"
        /\ SearchCalled("archive") =>
             /\ saved < MAX_PDFS_PER_PIECE
             /\ src = "IMSLP"
             /\ pc' = "urls" => src' = "Archive"
        /\ SearchCalled("mutopia") =>
             /\ saved < MAX_PDFS_PER_PIECE
             /\ src = "Archive"
             /\ pc' = "urls" => src' = "Mutopia"
        /\ (pc = "urls" /\ pc' = "tmpl") => (src = "DDG" /\ t' = t + 1)
        /\ (pc = "ret" /\ pc' = "tmpl") => saved < MAX_PDFS_PER_PIECE
      ]_vars

\* the quota is reached in the Internet Archive's list: Mutopia is next
C4_Witness ==
    pc = "mutopia" /\ src = "Archive" /\ saved = MAX_PDFS_PER_PIECE

\* ---------------------------------------------------------------- C5
\* C5: an entry found with at least quota matching files on disk is
\* classified complete in the same step, with no network call.
C5_ResumeSkipsNetwork ==
    [][ (pc = "row" /\ idx <= Len(rows) /\ nfiles' >= MAX_PDFS_PER_PIECE) =>
          /\ pc' = "row"
          /\ idx' = idx + 1
          /\ ~net'
          /\ complete_rows' = Append(complete_rows, rows[idx])
          /\ incomplete_rows' = incomplete_rows
      ]_vars

\* an entry was skipped on its files
C5_Witness ==
    /\ pc = "row"
    /\ idx > 1
    /\ nfiles >= MAX_PDFS_PER_PIECE
    /\ ~net
    /\ Prev \in Range(complete_rows)

\* ---------------------------------------------------------------- C6
\* C6: the rewritten catalog holds every input row exactly once, the
\* complete rows first and the incomplete rows after them, each group in
\* the order of the input.
C6_StablePartition ==
    pc = "done" =>
        LET C == Range(complete_rows)
            IsC(r) == r \in C
            IsI(r) == r \notin C
        IN  /\ catalog = SelectSeq(rows, IsC) \o SelectSeq(rows, IsI)
            /\ Range(incomplete_rows) = Range(rows) \ C
            /\ Len(catalog) = Len(rows)

\* a run that moved an incomplete row behind a complete one
C6_Witness ==
    pc = "done" /\ catalog # rows

\* ---------------------------------------------------------------- C7
\* every row before idx is in exactly one of the two lists, once
ClassifiedOnce ==
    /\ Len(complete_rows) + Len(incomplete_rows) = idx - 1
    /\ Range(complete_rows) \cup Range(incomplete_rows)
          = {rows[i] : i \in 1..(idx - 1)}
    /\ Range(complete_rows) \cap Range(incomplete_rows) = {}

\* C7 as written: every entry is classified exactly once, complete iff
\* achieved == quota when its processing ends.
C7_CompleteIffEqual ==
    /\ ClassifiedOnce
    /\ (pc = "row" /\ idx > 1) =>
          (Prev \in Range(complete_rows) <=> saved = MAX_PDFS_PER_PIECE)

\* C7, amended: every entry is classified exactly once, complete iff
\* achieved >= quota when its processing ends.
C7_CompleteIffReached ==
    /\ ClassifiedOnce
    /\ (pc = "row" /\ idx > 1) =>
          /\ Prev \in Range(complete_rows) <=> saved >= MAX_PDFS_PER_PIECE
          /\ Prev \in Range(incomplete_rows) <=> saved < MAX_PDFS_PER_PIECE

\* an entry with more than quota files was classified complete
C7_Witness ==
    /\ pc = "row"
    /\ idx > 1
    /\ saved > MAX_PDFS_PER_PIECE
    /\ Prev \in Range(complete_rows)

\* ---------------------------------------------------------------- C8
\* C8: an exception raised in an entry's narrowing loop ends that entry
\* only: the entry goes on to its classification and is classified
\* incomplete, and the run ends only after every row was classified and
\* the catalog was rewritten with all of them.
C8_FailureIsolation ==
    /\ exc # "none" => pc \in {"classify", "row", "done"}
    /\ (exc # "none" /\ pc = "classify") => saved < MAX_PDFS_PER_PIECE
    /\ pc = "done" =>
          /\ idx = Len(rows) + 1
          /\ Len(complete_rows) + Len(incomplete_rows) = Len(rows)
          /\ Range(catalog) = Range(rows)
    /\ (exc # "none" /\ pc \in {"row", "done"}) =>
          /\ idx > 1
          /\ Prev \in Range(incomplete_rows)
          /\ Prev \notin Range(complete_rows)

\* the first entry was aborted and the run is at the next row
C8_Witness ==
    /\ pc = "row"
    /\ idx = 2
    /\ exc # "none"
    /\ incomplete_rows = <<rows[1]>>

\* ---------------------------------------------------------------- C9
\* the variants given a cascade so far: the full title first, then one
\* token fewer each time
VariantsDecrease ==
    InEntry =>
        /\ Len(variants) >= 1
        /\ variants[1] = ntok
        /\ \A i \in 2..Len(variants) : variants[i] = variants[i - 1] - 1
        /\ variants[Len(variants)] = words

C10_StorageErrorAborts ==
    last = "storage" => pc # "urls"

\* C10, amended: when a downloaded file cannot be written, the download
\* counts as failed: achieved and the fingerprint set are unchanged, the
\* entry is not aborted and the URL loop goes on with the next URL.
C10_StorageErrorSwallowed ==
    /\ [](exc # "storage")
    /\ [][ (pc = "urls" /\ pending' = pending - 1 /\ last' = "storage") =>
             /\ pc' = "urls"
             /\ saved' = saved
             /\ seen_sizes' = seen_sizes
             /\ exc' = "none"
         ]_vars

\* a write failed and the list has another URL to try
C10_Witness ==
    pc = "urls" /\ last = "storage" /\ pending > 0

\* --------------------------------------------------------------- C11
\* C11: a candidate whose probed size is already in the fingerprint set
\* is rejected without a download request: only the probe is issued, and
\* achieved, the fingerprint set and the files are unchanged.  An accepted
\* candidate whose probe succeeded leaves its probed size in the set, so
\* a second candidate probing to that size is rejected and achieved grows
\* once only.
C11_ProbeDedup ==
    /\ []((pc = "urls" /\ pending > 0) =>
            \A clash \in BOOLEAN, probe \in Sizes, get \in GetOutcomes :
            \A actual \in IF get = "ok" THEN Sizes ELSE {NoSize} :
              LET r == maybe_download_pdf(probe, get, actual, clash,
                                          seen_sizes, nfiles) IN
              /\ probe \in seen_sizes =>
                    /\ ~r.ret
                    /\ r.reqs = {"head"}
                    /\ r.seen = seen_sizes
                    /\ r.files = nfiles
              /\ r.ret => probe \in r.seen)
    /\ [][ (pc = "urls" /\ last' = "dup_probe" /\ pending' = pending - 1) =>
             /\ reqs' = {"head"}
             /\ saved' = saved
             /\ seen_sizes' = seen_sizes
             /\ nfiles' = nfiles
         ]_vars

\* a file was saved in this entry and a later candidate was turned away
\* on its probe
C11_Witness ==
    /\ pc = "urls"
    /\ last = "dup_probe"
    /\ reqs = {"head"}
    /\ net
    /\ saved > 0
    /\ saved = nfiles

\* --------------------------------------------------------------- C12
\* C12: after a download the actual size of the downloaded file is the
\* fingerprint whenever the probe failed or the probed size differs from
\* the actual size: if it is in the fingerprint set the file is deleted
\* and the candidate rejected, otherwise it is added to the set and the
\* candidate is counted.
C12_ActualSizeIsFingerprint ==
    (pc = "urls" /\ pending > 0 /\ ~QuotaMetUrl(saved)) =>
      \A clash \in BOOLEAN, probe \in Sizes \cup {NoSize}, actual \in Sizes :
        LET r == maybe_download_pdf(probe, "ok", actual, clash,
                                    seen_sizes, nfiles)
            written == IF clash THEN nfiles ELSE nfiles + 1
        IN  ( /\ clash => nfiles > 0
              /\ ~clash => nfiles < NumNames
              /\ probe \notin seen_sizes
              /\ probe = NoSize \/ probe # actual ) =>
              IF actual \in seen_sizes
              THEN ~r.ret /\ r.seen = seen_sizes /\ r.files = written - 1
              ELSE r.ret /\ r.seen = seen_sizes \cup {actual}
                         /\ r.files = written

\* --------------------------------------------------------------- C13
\* C13: in a run started when every entry has at least quota files on
\* disk, no search is called, nothing is probed or downloaded and no file
\* is touched: every row goes straight to the complete list, and the
\* catalog is rewritten with the same rows in the same order.
C13_Idempotent ==
    /\ [](allFull =>
            /\ pc \in {"row", "done"}
            /\ ~net /\ reqs = {} /\ last = "none" /\ ~slept
            /\ exc = "none"
            /\ incomplete_rows = <<>>
            /\ complete_rows = SubSeq(rows, 1, idx - 1)
            /\ pc = "row" => catalog = rows
            /\ pc = "done" => idx = Len(rows) + 1 /\ catalog = rows)
    /\ [][ (allFull' /\ pc = "row" /\ pc' = "row") =>
             /\ nfiles' >= MAX_PDFS_PER_PIECE
             /\ saved' = nfiles'
         ]_vars

\* the run is over and every row was found with its quota on disk
C13_Witness ==
    /\ pc = "done"
    /\ allFull
    /\ Len(complete_rows) = Len(rows)
    /\ Len(rows) > 1
    /\ catalog = rows

\* --------------------------------------------------------------- C14
\* C14: within one entry the fingerprint set only grows: no step of the
\* entry, whether it moves to the next cascade step or narrows the title,
\* removes a fingerprint or resets the set.
C14_FingerprintsAccumulate ==
    [][ (InEntry /\ pc # "classify") => seen_sizes \subseteq seen_sizes' ]_vars

\* a candidate is turned away on its probe under the second variant of
\* the title
C14_Witness ==
    /\ pc = "urls"
    /\ Len(variants) = 2
    /\ last = "dup_probe"
    /\ seen_sizes # {}

\* --------------------------------------------------------------- C15
\* C15 as written: the download delay is observed after each accepted
\* download and only then: not after a candidate rejected as a duplicate,
\* not after a failed download, not after a query.
C15_DelayAfterAcceptedOnly ==
    slept <=> last = "saved"

\* C15, amended: the download delay is observed after every candidate
\* handed to the download step, whether it was accepted, rejected as a
\* duplicate (on its probe or after the download) or failed, and only
\* then: not after a candidate skipped as irrelevant, and not after a
\* query.
C15_DelayAfterEveryAttempt ==
    /\ [](slept <=> last \in {"dup_probe", "failed", "storage", "dup_after",
                              "saved"})
    /\ [](slept <=> reqs # {})
    /\ [][ (\E at \in {"tmpl", "imslp", "archive", "mutopia"} :
              SearchCalled(at)) => ~slept' ]_vars

\* the delay was taken after a candidate turned away on its probe
C15_Witness ==
    /\ pc = "urls"
    /\ last = "dup_probe"
    /\ reqs = {"head"}
    /\ slept

\* --------------------------------------------------------------- C16
\* a relevant URL was handed to maybe_download_pdf in this step
Attempted ==
    /\ pc = "urls"
    /\ \/ pending' = pending - 1 /\ reqs' # {}
       \/ exc = "none" /\ exc' = "storage"

\* C16: once achieved has reached the quota, no step of that entry calls
\* a search, probes or downloads; achieved and the files stay as they
\* are, and the narrowing loop starts no further cascade.
C16_QuotaStopsEntry ==
    [][ (InEntry /\ saved >= MAX_PDFS_PER_PIECE) =>
          /\ \A at \in {"tmpl", "imslp", "archive", "mutopia"} :
                ~SearchCalled(at)
          /\ ~Attempted
          /\ saved' = saved
          /\ pc' # "row" => nfiles' = nfiles
          /\ pc' # "row" => variants' = variants
      ]_vars

\* the quota was reached by a download under a title that could still be
\* narrowed
C16_Witness ==
    /\ pc = "ret"
    /\ saved = MAX_PDFS_PER_PIECE
    /\ net
    /\ words > 1

\* --------------------------------------------------------------- C17
\* the places <<i, j>> of the maximal runs of s free of the characters of
\* seps
RunsAt(s, seps) ==
    {r \in (1..Len(s)) \X (1..Len(s)) :
        /\ r[1] <= r[2]
        /\ \A k \in r[1]..r[2] : s[k] \notin seps
        /\ r[1] = 1 \/ s[r[1] - 1] \in seps
        /\ r[2] = Len(s) \/ s[r[2] + 1] \in seps}

\* at least half of the runs of s occur in text
HalfOccur(s, seps, text) ==
    LET runs == RunsAt(s, seps)
        found == {r \in runs : Contains(text, SubSeq(s, r[1], r[2]))}
    IN  2 * Cardinality(found) >= Cardinality(runs)

\* the decoded, lower-cased URL
Text == lower(unquote(cand.url))

ComposerOrKeyword ==
    \/ Contains(Text, remove_spaces(lower(cand.composer)))
    \/ \E kw \in Keywords : Contains(Text, kw)

\* the filter as C17 words it: the tokens are the whitespace-delimited
\* tokens of the title variant
RelevantByTokens ==
    HalfOccur(lower(cand.title), {" "}, Text) \/ ComposerOrKeyword

\* the filter over the words of the title variant: its maximal runs of
\* letters, digits and underscores
RelevantByWords ==
    HalfOccur(lower(cand.title), NonWord, Text) \/ ComposerOrKeyword

\* C17 as written: is_relevant_pdf is true iff at least half of the
\* whitespace-delimited tokens of the title variant occur in the decoded,
\* lower-cased URL, or the composer without spaces occurs in it, or a
\* keyword does; a URL for which it is false is never probed or
\* downloaded.
C17_WhitespaceTokens ==
    /\ last = "irrelevant" => ~RelevantByTokens
    /\ reqs # {} => RelevantByTokens

\* C17, amended: is_relevant_pdf is true iff at least half of the words
\* of the lower-cased title variant (maximal runs of letters, digits and
\* underscores, so that punctuation separates words and belongs to none)
\* occur in the decoded, lower-cased URL, or the lower-cased composer
\* without spaces occurs in it, or a keyword does; a URL for which it is
\* false is skipped: never probed, never downloaded, no delay taken.
C17_RelevanceFilter ==
    /\ is_relevant_pdf(cand.url, cand.title, cand.composer)
          <=> RelevantByWords
    /\ pending = 0 => (last = "irrelevant" <=> ~RelevantByWords)
    /\ ~RelevantByWords =>
          /\ reqs = {} /\ ~slept
          /\ saved = 0 /\ nfiles = 0 /\ seen_sizes = {}
          /\ pc = "urls" /\ exc = "none"
    /\ reqs # {} => RelevantByWords

\* a URL was skipped that holds one of the three words of a title of two
\* whitespace-delimited tokens, and with it one of these two tokens
C17_Witness ==
    /\ last = "irrelevant"
    /\ pending = 0
    /\ Len(findall_words(lower(cand.title))) = 3
    /\ Len(split(cand.title)) = 2
    /\ RelevantByTokens
    /\ ~ComposerOrKeyword

\* --------------------------------------------------------------- C18
\* C18: at every point of an entry achieved equals the number of files on
\* disk that match the entry's pattern: an accepted download overwrites
\* no retained file, deleting a duplicate removes no retained file, and
\* a rejected or failed download leaves no file behind.
C18_AchievedEqualsFiles ==
    InEntry => saved = nfiles

\* --------------------------------------------------------------- C19
Max(a, b) == IF a >= b THEN a ELSE b

\* how far the current cascade has come: the templates in order, each
\* followed by its URL list, then IMSLP, Internet Archive and Mutopia,
\* each followed by its URL list, then the return of try_search
Stage ==
    CASE pc = "tmpl" -> 2 * t - 1
      [] pc = "urls" /\ src = "DDG" -> 2 * t
      [] pc = "imslp" -> 2 * NumTemplates + 2
      [] pc = "urls" /\ src = "IMSLP" -> 2 * NumTemplates + 3
      [] pc = "archive" -> 2 * NumTemplates + 4
      [] pc = "urls" /\ src = "Archive" -> 2 * NumTemplates + 5
      [] pc = "mutopia" -> 2 * NumTemplates + 6
      [] pc = "urls" /\ src = "Mutopia" -> 2 * NumTemplates + 7
      [] pc = "ret" -> 2 * NumTemplates + 8
      [] OTHER -> 0

\* C19: the processing of an entry terminates.  A title of n tokens is
\* given at most max(1, n) cascades; every step of the entry ends it,
\* or starts a cascade for a shorter variant, or moves the cascade on (a
\* later stage, or the next URL of the same list), so that a cascade
\* calls DuckDuckGo at most once per template and each of the other
\* sources at most once.
C19_EntryTerminates ==
    /\ [](InEntry => /\ Len(variants) <= Max(1, ntok)
                     /\ Len(variants) >= 1
                     /\ words >= 0
                     /\ pending \in 0..MaxResults
                     /\ pc = "tmpl" => t \in 1..(NumTemplates + 1)
                     /\ (pc = "urls" /\ src = "DDG") => t \in 1..NumTemplates)
    /\ [][ (InEntry /\ pc # "classify") =>
             \/ pc' = "classify"
             \/ /\ pc = "ret"
                /\ pc' = "tmpl" /\ t' = 1
                /\ words' < words
                /\ Len(variants') = Len(variants) + 1
             \/ /\ words' = words
                /\ variants' = variants
                /\ \/ Stage' > Stage
                   \/ Stage' = Stage /\ pending' < pending
         ]_vars
    /\ [][ pc = "classify" => pc' = "row" /\ idx' = idx + 1 ]_vars

\* a two-token title has had its two cascades and try_search has returned
\* from the second
C19_Witness ==
    /\ pc = "ret"
    /\ ntok = 2
    /\ words = 1
    /\ Len(variants) = 2
    /\ net

\* --------------------------------------------------------------- C20
Total(c) == c["DDG"] + c["IMSLP"] + c["Archive"] + c["Mutopia"]

\* C20: the per-source counters of the run start at zero and are never
\* decremented; a step changes them only by accepting a download, which
\* adds one to the counter of the source whose URL list is being iterated
\* and to no other; no other step, the start of the next row included,
\* changes them.  Hence their sum grows exactly as achieved grows beyond
\* what an entry was seeded with, and equals the total of (achieved -
\* seeded) over the entries processed.
C20_CountersPerSource ==
    /\ []((pc = "row" /\ idx = 1) => counters = [s \in Sources |-> 0])
    /\ [](counters \in [Sources -> Nat])
    /\ [][ \A s \in Sources : counters'[s] >= counters[s] ]_vars
    /\ [][ IF pc = "urls" /\ saved' = saved + 1
           THEN /\ last' = "saved"
                /\ src \in Sources
                /\ counters'[src] = counters[src] + 1
                /\ \A s \in Sources \ {src} : counters'[s] = counters[s]
           ELSE counters' = counters
         ]_vars
    /\ [][ Total(counters') - Total(counters) =
             IF pc = "row" THEN 0 ELSE saved' - saved ]_vars

\* in the second row a download from IMSLP was accepted, after DuckDuckGo
\* and IMSLP had each been counted before
C20_Witness ==
    /\ report
    /\ idx = 2
    /\ pc = "urls"
    /\ src = "IMSLP"
    /\ last = "saved"
    /\ counters["DDG"] >= 1
    /\ counters["IMSLP"] = 2
    /\ Total(counters) > saved

====
